---- MODULE Spec2Model ----
(***************************************************************************)
(* Model of bookstore/handlers.py: the publish handler                     *)
(* (BookstorePublishHandler.put / _publish), the object-storage client it  *)
(* drives, and the route registration of load_jupyter_server_extension.    *)
(*                                                                         *)
(* A Python str (a path, a prefix, a dict key, a JSON string, the text     *)
(* json.dumps returns) is the sequence of its characters' code points;     *)
(* bytes are sequences of 0..255.  JSON values (the decoded request body,  *)
(* the storage reply, the response) are records [kind, chars, items,       *)
(* members]; a dict keeps its members in insertion order, as Python does.  *)
(* Error reasons and step names are labels, written as TLA+ strings.       *)
(*                                                                         *)
(* Authentication (@web.authenticated) belongs to the host: the model      *)
(* starts where an authenticated request enters the handler.               *)
(***************************************************************************)
EXTENDS Integers, Sequences, FiniteSets, TLC

\* ---------------------------------------------------------------- bounds
\* Longest path of a direct call, in characters, and longest request path
\* of a routed request, in pieces (a character or a %XX escape sequence).
MaxPathLen == 3
\* Number of publish requests the concurrent specification runs.
NumRequests == 2

\* ------------------------------------------------------------ characters
\* A character is its code point.
Slash == 47
Percent == 37
Quote == 34
Backslash == 92

\* The string literals of the code and of its inputs.
s_type == <<116, 121, 112, 101>>
s_content == <<99, 111, 110, 116, 101, 110, 116>>
s_notebook == <<110, 111, 116, 101, 98, 111, 111, 107>>
s_s3path == <<115, 51, 112, 97, 116, 104>>
s_versionID == <<118, 101, 114, 115, 105, 111, 110, 73, 68>>
s_VersionId == <<86, 101, 114, 115, 105, 111, 110, 73, 100>>
s_scheme == <<115, 51, 58, 47, 47>>
s_null == <<110, 117, 108, 108>>
s_true == <<116, 114, 117, 101>>
s_false == <<102, 97, 108, 115, 101>>
s_file == <<102, 105, 108, 101>>
s_name == <<110, 97, 109, 101>>
s_cells == <<99, 101, 108, 108, 115>>
s_nbformat == <<110, 98, 102, 111, 114, 109, 97, 116>>
s_ETag == <<69, 84, 97, 103>>

\* ------------------------------------------------------------ JSON values
\* chars holds the characters of a string and, for null, a boolean or a
\* number, the literal json.dumps writes for it.
JNull == [kind |-> "null", chars |-> s_null, items |-> <<>>, members |-> <<>>]
JBool(b) == [kind |-> "bool", chars |-> IF b THEN s_true ELSE s_false, items |-> <<>>, members |-> <<>>]
JNum(t) == [kind |-> "num", chars |-> t, items |-> <<>>, members |-> <<>>]
JStr(s) == [kind |-> "str", chars |-> s, items |-> <<>>, members |-> <<>>]
JArr(xs) == [kind |-> "arr", chars |-> <<>>, items |-> xs, members |-> <<>>]
JObj(ms) == [kind |-> "obj", chars |-> <<>>, items |-> <<>>, members |-> ms]
Member(k, v) == [key |-> k, val |-> v]

\* The lower-case hexadecimal digit of d in 0..15.
hex_digit(d) == IF d < 10 THEN 48 + d ELSE 87 + d

\* \uXXXX for n in 0..65535.
u_escape(n) ==
  <<Backslash, 117, hex_digit(n \div 4096), hex_digit((n \div 256) % 16),
    hex_digit((n \div 16) % 16), hex_digit(n % 16)>>

\* json.dumps of one character of a string (ensure_ascii): the quote, the
\* backslash and the control characters are escaped, ASCII from the space
\* to the tilde is kept, any other character is written as \uXXXX, as a
\* surrogate pair above U+FFFF.
escape_char(c) ==
  CASE c = Quote -> <<Backslash, Quote>>
    [] c = Backslash -> <<Backslash, Backslash>>
    [] c = 10 -> <<Backslash, 110>>
    [] c = 13 -> <<Backslash, 114>>
    [] c = 9 -> <<Backslash, 116>>
    [] c = 12 -> <<Backslash, 102>>
    [] c = 8 -> <<Backslash, 98>>
    [] c < 32 /\ c \notin {8, 9, 10, 12, 13} -> u_escape(c)
    [] c >= 32 /\ c < 127 /\ c \notin {Quote, Backslash} -> <<c>>
    [] c >= 127 /\ c < 65536 -> u_escape(c)
    [] c >= 65536 ->
         u_escape(55296 + ((c - 65536) \div 1024))
           \o u_escape(56320 + ((c - 65536) % 1024))

\* json.dumps of a str: the escaped characters between quotes.
RECURSIVE escape(_)
escape(s) == IF s = <<>> THEN <<>> ELSE escape_char(Head(s)) \o escape(Tail(s))
dumps_str(s) == <<Quote>> \o escape(s) \o <<Quote>>

\* json.dumps with Python's default separators (", " and ": ").
RECURSIVE json_dumps(_)
RECURSIVE dumps_items(_)
RECURSIVE dumps_members(_)
dumps_items(xs) ==
  IF xs = <<>> THEN <<>>
  ELSE IF Len(xs) = 1 THEN json_dumps(xs[1])
  ELSE json_dumps(xs[1]) \o <<44, 32>> \o dumps_items(Tail(xs))
dumps_members(ms) ==
  IF ms = <<>> THEN <<>>
  ELSE IF Len(ms) = 1 THEN dumps_str(ms[1].key) \o <<58, 32>> \o json_dumps(ms[1].val)
  ELSE dumps_str(ms[1].key) \o <<58, 32>> \o json_dumps(ms[1].val) \o <<44, 32>>
         \o dumps_members(Tail(ms))
json_dumps(v) ==
  CASE v.kind = "null" -> s_null
    [] v.kind = "bool" -> v.chars
    [] v.kind = "num" -> v.chars
    [] v.kind = "str" -> dumps_str(v.chars)
    [] v.kind = "arr" -> <<91>> \o dumps_items(v.items) \o <<93>>
    [] v.kind = "obj" -> <<123>> \o dumps_members(v.members) \o <<125>>

\* Mutant of Truthy: `if model is not None`, which lets {} through.
Truthy_not_none(v) == v.kind # "null"

\* Python truthiness of a decoded JSON value (`if model:`); the zeros of
\* int and float are written 0, 0.0 and -0.0.
Truthy(v) ==
  CASE v.kind = "null" -> FALSE
    [] v.kind = "bool" -> v.chars = s_true
    [] v.kind = "num" -> v.chars \notin {<<48>>, <<48, 46, 48>>, <<45, 48, 46, 48>>}
    [] v.kind = "str" -> v.chars # <<>>
    [] v.kind = "arr" -> v.items # <<>>
    [] v.kind = "obj" -> v.members # <<>>

\* `key in d` for a dict d.
HasKey(d, k) == \E i \in 1..Len(d.members) : d.members[i].key = k

\* d[k]: the value, or the exception Python raises (KeyError for a dict
\* without the key, TypeError for a value that is not a dict).
Subscript(d, k) ==
  IF d.kind # "obj" THEN [exc |-> "TypeError", val |-> JNull]
  ELSE IF ~HasKey(d, k) THEN [exc |-> "KeyError", val |-> JNull]
  ELSE [exc |-> "", val |-> d.members[CHOOSE i \in 1..Len(d.members) : d.members[i].key = k].val]

\* ---------------------------------------------------------------- strings
\* str.lstrip('/')
RECURSIVE lstrip(_)
lstrip(s) == IF s # <<>> /\ Head(s) = Slash THEN lstrip(Tail(s)) ELSE s

\* str.rstrip('/')
RECURSIVE rstrip(_)
rstrip(s) == IF s # <<>> /\ s[Len(s)] = Slash THEN rstrip(SubSeq(s, 1, Len(s) - 1)) ELSE s

\* ------------------------------------------------------------ path builder
\* bookstore/s3_paths.py: prefix and relative path joined by exactly one
\* separator, whether or not the prefix ends or the path begins with one.
s3_key(prefix, path) == rstrip(prefix) \o <<Slash>> \o lstrip(path)
s3_path(bucket, prefix, path) == s_scheme \o bucket \o <<Slash>> \o s3_key(prefix, path)
s3_display_path(bucket, prefix, path) == s_scheme \o bucket \o <<Slash>> \o s3_key(prefix, path)

\* ---------------------------------------------------------------- routing
\* The route patterns, for base_url "/"; the publish pattern ends in
\* notebook's path_regex, whose group binds put's path argument.
VersionRoute == "/api/bookstore"
PublishRoute == "/api/bookstore/published(?P<path>(?:(?:/[^/]+)+|/?))"

\* The request paths below /api/bookstore/published that path_regex matches
\* in full: nothing, "/", or one or more segments "/" + non-slash characters.
path_regex(u) ==
  \/ u = <<>>
  \/ u = <<Slash>>
  \/ /\ u # <<>>
     /\ Head(u) = Slash
     /\ u[Len(u)] # Slash
     /\ \A i \in 1..(Len(u) - 1) : u[i] = Slash => u[i + 1] # Slash

IsHexDigit(c) == c \in (48..57) \cup (65..70) \cup (97..102)
HexValue(c) == IF c <= 57 THEN c - 48 ELSE IF c <= 70 THEN c - 55 ELSE c - 87

\* str.encode('utf-8') of one character.
utf8_encode(c) ==
  IF c < 128 THEN <<c>>
  ELSE IF c < 2048 THEN <<192 + (c \div 64), 128 + (c % 64)>>
  ELSE IF c < 65536 THEN <<224 + (c \div 4096), 128 + ((c \div 64) % 64), 128 + (c % 64)>>
  ELSE <<240 + (c \div 262144), 128 + ((c \div 4096) % 64), 128 + ((c \div 64) % 64), 128 + (c % 64)>>

\* The server's url_unescape of the matched group, to bytes: %XX with two
\* hexadecimal digits is the byte XX, any other character its UTF-8 bytes.
RECURSIVE url_unescape(_)
url_unescape(u) ==
  IF u = <<>> THEN <<>>
  ELSE IF u[1] = Percent /\ Len(u) >= 3 /\ IsHexDigit(u[2]) /\ IsHexDigit(u[3])
       THEN <<16 * HexValue(u[2]) + HexValue(u[3])>> \o url_unescape(SubSeq(u, 4, Len(u)))
       ELSE utf8_encode(u[1]) \o url_unescape(Tail(u))

IsContinuation(b) == b \in 128..191

\* The number of bytes of the UTF-8 character bs starts with, 0 when bs
\* does not start with a well-formed one.
utf8_len(bs) ==
  LET b == bs[1]
      n == Len(bs)
  IN IF b < 128 THEN 1
     ELSE IF b \in 194..223
          THEN IF n >= 2 /\ IsContinuation(bs[2]) THEN 2 ELSE 0
     ELSE IF b \in 224..239
          THEN IF /\ n >= 3
                  /\ bs[2] \in (IF b = 224 THEN 160..191 ELSE IF b = 237 THEN 128..159 ELSE 128..191)
                  /\ IsContinuation(bs[3])
               THEN 3 ELSE 0
     ELSE IF b \in 240..244
          THEN IF /\ n >= 4
                  /\ bs[2] \in (IF b = 240 THEN 144..191 ELSE IF b = 244 THEN 128..143 ELSE 128..191)
                  /\ IsContinuation(bs[3])
                  /\ IsContinuation(bs[4])
               THEN 4 ELSE 0
     ELSE 0

\* The bytes are well-formed UTF-8 (decode_argument answers 400 otherwise).
RECURSIVE utf8_valid(_)
utf8_valid(bs) ==
  IF bs = <<>> THEN TRUE
  ELSE utf8_len(bs) > 0 /\ utf8_valid(SubSeq(bs, utf8_len(bs) + 1, Len(bs)))

\* The character a well-formed UTF-8 sequence starts with.
utf8_first(bs) ==
  CASE utf8_len(bs) = 1 -> bs[1]
    [] utf8_len(bs) = 2 -> (bs[1] - 192) * 64 + (bs[2] - 128)
    [] utf8_len(bs) = 3 -> (bs[1] - 224) * 4096 + (bs[2] - 128) * 64 + (bs[3] - 128)
    [] utf8_len(bs) = 4 ->
         (bs[1] - 240) * 262144 + (bs[2] - 128) * 4096 + (bs[3] - 128) * 64 + (bs[4] - 128)

\* decode_argument: the str of well-formed UTF-8 bytes.
RECURSIVE decode_argument(_)
decode_argument(bs) ==
  IF bs = <<>> THEN <<>>
  ELSE <<utf8_first(bs)>> \o decode_argument(SubSeq(bs, utf8_len(bs) + 1, Len(bs)))

\* ----------------------------------------------------------------- inputs
\* "/", "a"
PathChars == {Slash, 97}
RECURSIVE PathsOfLen(_)
PathsOfLen(n) ==
  IF n = 0 THEN {<<>>}
  ELSE {Append(p, c) : p \in PathsOfLen(n - 1), c \in PathChars}
\* Every path string put can be called with, up to MaxPathLen characters.
Paths == UNION {PathsOfLen(n) : n \in 0..MaxPathLen}

\* "/", "a", "%2F" (an escaped slash), "%C3%A9" (an escaped e-acute)
UrlPieces == {<<Slash>>, <<97>>, <<37, 50, 70>>, <<37, 67, 51, 37, 65, 57>>}
RECURSIVE UrlsOfLen(_)
UrlsOfLen(n) ==
  IF n = 0 THEN {<<>>}
  ELSE {u \o q : u \in UrlsOfLen(n - 1), q \in UrlPieces}
\* The request paths below /api/bookstore/published, up to MaxPathLen pieces.
Urls == UNION {UrlsOfLen(n) : n \in 0..MaxPathLen}

\* {"cells": [], "nbformat": 4}
Notebook == JObj(<<Member(s_cells, JArr(<<>>)), Member(s_nbformat, JNum(<<52>>))>>)
\* A document whose key and text need escaping: the key k", the text of a,
\* quote, backslash, newline, form feed, U+0001, DEL, U+00E9, U+00FC, U+65E5
\* and U+1F600.
Quoted ==
  JObj(<<Member(<<107, Quote>>,
                JStr(<<97, Quote, Backslash, 10, 12, 1, 127, 233, 252, 26085, 128512>>))>>)
Contents == {Notebook, Quoted, JObj(<<>>), JNull}

\* Decoded request bodies (get_json_body gives None for an absent body).
Bodies ==
  {JNull, JObj(<<>>), JArr(<<>>), JArr(<<JNum(<<49>>)>>),
   JNum(<<48>>), JNum(<<48, 46, 48>>), JNum(<<45, 48, 46, 48>>), JNum(<<49>>),
   JBool(FALSE), JBool(TRUE), JStr(<<>>), JStr(s_notebook)}
  \cup {JObj(<<Member(s_type, JStr(t)), Member(s_content, c)>>) :
          t \in {s_notebook, s_file}, c \in Contents}
  \cup {JObj(<<Member(s_type, JStr(s_notebook)), Member(s_content, Notebook),
               Member(s_name, JStr(<<97>>))>>),
        JObj(<<Member(s_type, JNull), Member(s_content, Notebook)>>),
        JObj(<<Member(s_type, JStr(s_notebook))>>),
        JObj(<<Member(s_type, JStr(s_file))>>),
        JObj(<<Member(s_content, Notebook)>>),
        JObj(<<Member(s_name, JStr(<<97>>))>>)}

\* What put_object returns: a dict with or without VersionId ("v1", or
\* v"2 beside an ETag).
Replies ==
  {JObj(<<>>),
   JObj(<<Member(s_ETag, JStr(<<101>>))>>),
   JObj(<<Member(s_VersionId, JStr(<<118, 49>>))>>),
   JObj(<<Member(s_ETag, JStr(<<Quote, 101, Quote>>)),
          Member(s_VersionId, JStr(<<118, Quote, 50>>))>>)}

\* What put_object raises.
StorageErrors == {"ClientError", "EndpointConnectionError"}

\* BookstoreSettings: bucket "b" and published prefix "p" or "p/".
SettingsChoices ==
  {[s3_bucket |-> <<98>>, published_prefix |-> pre] : pre \in {<<112>>, <<112, Slash>>}}

\* validate_bookstore's report: each flag true, false or missing.
ValidationKeys == {"bookstore_valid", "publish_valid"}
ValidationReports == UNION {[D -> BOOLEAN] : D \in SUBSET ValidationKeys}

Requests == 1..NumRequests

\* ------------------------------------------------------------------ state
VARIABLES
  loaded,        \* load_jupyter_server_extension has run
  routes,        \* web_app's registered route patterns
  validation,    \* web_app.settings['bookstore']['validation']
  settings,      \* BookstoreSettings (read-only configuration)
  pc,            \* each request's position in the handler
  via,           \* how the request reached put: "route" or "call"
  url,           \* the request path the route matched, for a routed request
  session,       \* self.session of the request's handler instance
  path,          \* the path argument of put
  model,         \* the decoded request body
  relpath,       \* the path argument of _publish
  content,       \* _publish's local `content`
  full_s3_path,  \* _publish's local `full_s3_path`
  file_key,      \* _publish's local `file_key`
  client,        \* the client bound by `async with ... as client`
  obj,           \* put_object's return value
  exc,           \* the exception in flight, "" when none
  status,        \* the response status
  message,       \* the reason of the error response
  finished,      \* the string handed to self.finish
  trace,         \* the steps the request has executed, in order
  calls,         \* the path-builder calls the request has made
  puts,          \* the put_object calls the request has issued
  clients,       \* the storage clients that are open
  nextSession,   \* sessions created so far
  nextClient     \* clients created so far

vars == <<loaded, routes, validation, settings, pc, via, url, session, path, model, relpath,
          content, full_s3_path, file_key, client, obj, exc, status, message,
          finished, trace, calls, puts, clients, nextSession, nextClient>>

serverVars == <<loaded, routes, validation, settings>>
inputVars == <<via, url, path, model>>
localVars == <<relpath, content, full_s3_path, file_key>>
responseVars == <<status, message, finished>>

NoSession == 0
NoClient == [id |-> 0, session |-> 0]
Terminal == {"done", "failed"}

Init ==
  /\ loaded = FALSE
  /\ routes = {}
  /\ validation = <<>>
  /\ settings \in SettingsChoices
  /\ pc = [r \in Requests |-> "idle"]
  /\ via = [r \in Requests |-> ""]
  /\ url = [r \in Requests |-> <<>>]
  /\ session = [r \in Requests |-> NoSession]
  /\ path = [r \in Requests |-> <<>>]
  /\ model = [r \in Requests |-> JNull]
  /\ relpath = [r \in Requests |-> <<>>]
  /\ content = [r \in Requests |-> JNull]
  /\ full_s3_path = [r \in Requests |-> <<>>]
  /\ file_key = [r \in Requests |-> <<>>]
  /\ client = [r \in Requests |-> NoClient]
  /\ obj = [r \in Requests |-> JNull]
  /\ exc = [r \in Requests |-> ""]
  /\ status = [r \in Requests |-> 200]
  /\ message = [r \in Requests |-> ""]
  /\ finished = [r \in Requests |-> <<>>]
  /\ trace = [r \in Requests |-> <<>>]
  /\ calls = [r \in Requests |-> <<>>]
  /\ puts = [r \in Requests |-> <<>>]
  /\ clients = {}
  /\ nextSession = 0
  /\ nextClient = 0

\* ------------------------------------------------- route registration
\* dict.get: the flag, or None when the report lacks it.
dict_get(report, k) ==
  IF k \in DOMAIN report THEN (IF report[k] THEN "True" ELSE "False") ELSE "None"

\* Mutant of all: any(), which mounts the route on one true flag.
any(xs) == \E i \in 1..Len(xs) : xs[i] = "True"

\* Python's all() over a list of flags.
all(xs) == \A i \in 1..Len(xs) : xs[i] = "True"

check_published(report) ==
  <<dict_get(report, "bookstore_valid"), dict_get(report, "publish_valid")>>

load_jupyter_server_extension(report) ==
  /\ ~loaded
  /\ loaded' = TRUE
  /\ validation' = report
  /\ routes' = IF all(check_published(report))
               THEN routes \cup {VersionRoute, PublishRoute}
               ELSE routes \cup {VersionRoute}
  /\ UNCHANGED <<settings, pc, session, inputVars, localVars, client, obj, exc,
                 responseVars, trace, calls, puts, clients, nextSession, nextClient>>

\* ------------------------------------------------------- publish handler
\* A BookstorePublishHandler is made for the request; initialize() gives the
\* instance its own session, and put is about to run with path p and body m.
initialize(r, how, p, m) ==
  /\ pc[r] = "idle"
  /\ pc' = [pc EXCEPT ![r] = "put"]
  /\ via' = [via EXCEPT ![r] = how]
  /\ path' = [path EXCEPT ![r] = p]
  /\ model' = [model EXCEPT ![r] = m]
  /\ session' = [session EXCEPT ![r] = nextSession + 1]
  /\ nextSession' = nextSession + 1
  /\ UNCHANGED <<serverVars, localVars, client, obj, exc, responseVars, trace,
                 calls, puts, clients, nextClient>>

\* The server routes a PUT to the handler: the publish pattern is mounted
\* and its path_regex matches the rest u of the request path; the matched
\* group, percent-decoded, becomes put's path argument.
dispatch(r, u, m) ==
  /\ PublishRoute \in routes
  /\ path_regex(u)
  /\ utf8_valid(url_unescape(u))
  /\ url' = [url EXCEPT ![r] = u]
  /\ \E p \in {decode_argument(url_unescape(u))} : initialize(r, "route", p, m)

\* put is called on a handler directly, with any path string.
call(r, p, m) ==
  /\ url' = url
  /\ initialize(r, "call", p, m)

\* raise web.HTTPError(code, reason), or an uncaught exception (code 500).
Raise(code, reason, steps) ==
  [pc |-> "failed", status |-> code, message |-> reason, trace |-> steps]

\* Mutant of put_outcome: the body is checked before the path.
put_outcome_body_first(p, m) ==
  IF ~Truthy(m)
  THEN Raise(400, "Cannot publish an empty model", <<"get_json_body", "check_model">>)
  ELSE IF p = <<>> \/ p = <<Slash>>
       THEN Raise(400, "Must provide a path for publishing",
                  <<"get_json_body", "check_model", "check_path">>)
       ELSE [pc |-> "_publish", status |-> 200, message |-> "",
             trace |-> <<"get_json_body", "check_model", "check_path">>]

\* put, lines 61-68: the outcome of its checks for path p and body m.
put_outcome(p, m) ==
  IF p = <<>> \/ p = <<Slash>>
  THEN Raise(400, "Must provide a path for publishing", <<"check_path">>)
  ELSE IF Truthy(m)
       THEN [pc |-> "_publish", status |-> 200, message |-> "",
             trace |-> <<"check_path", "get_json_body", "check_model">>]
       ELSE Raise(400, "Cannot publish an empty model",
                  <<"check_path", "get_json_body", "check_model">>)

put(r) ==
  /\ pc[r] = "put"
  /\ LET out == put_outcome(path[r], model[r]) IN
       /\ pc' = [pc EXCEPT ![r] = out.pc]
       /\ status' = [status EXCEPT ![r] = out.status]
       /\ message' = [message EXCEPT ![r] = out.message]
       /\ trace' = [trace EXCEPT ![r] = trace[r] \o out.trace]
       /\ relpath' = [relpath EXCEPT ![r] = IF out.pc = "_publish" THEN lstrip(path[r]) ELSE relpath[r]]
  /\ UNCHANGED <<serverVars, session, inputVars, content, full_s3_path, file_key,
                 client, obj, exc, finished, calls, puts, clients, nextSession,
                 nextClient>>

\* model['type'] != 'notebook'
IsNotebookType(t) == t.kind = "str" /\ t.chars = s_notebook

\* Mutant of publish_outcome: the type check is missing.
publish_outcome_no_type_check(m) ==
  LET c == Subscript(m, s_content)
  IN IF c.exc # ""
     THEN Raise(500, c.exc, <<"get_content">>)
     ELSE [pc |-> "create_client", status |-> 200, message |-> "",
           trace |-> <<"get_content", "s3_path", "s3_key", "s3_display_path">>]

\* _publish, lines 72-74: the type check and the read of the content field.
publish_outcome(m) ==
  LET t == Subscript(m, s_type)
      c == Subscript(m, s_content)
  IN IF t.exc # ""
     THEN Raise(500, t.exc, <<"check_type">>)
     ELSE IF ~IsNotebookType(t.val)
          THEN Raise(400, "bookstore only publishes notebooks", <<"check_type">>)
          ELSE IF c.exc # ""
               THEN Raise(500, c.exc, <<"check_type", "get_content">>)
               ELSE [pc |-> "create_client", status |-> 200, message |-> "",
                     trace |-> <<"check_type", "get_content", "s3_path", "s3_key",
                                 "s3_display_path">>]

BuilderCall(fn, p) == [fn |-> fn, path |-> p]

\* _publish, lines 70-86: up to the creation of the storage client.
_publish(r) ==
  /\ pc[r] = "_publish"
  /\ LET out == publish_outcome(model[r])
         ok == out.pc = "create_client"
     IN
       /\ pc' = [pc EXCEPT ![r] = out.pc]
       /\ status' = [status EXCEPT ![r] = out.status]
       /\ message' = [message EXCEPT ![r] = out.message]
       /\ trace' = [trace EXCEPT ![r] = trace[r] \o out.trace]
       /\ content' = [content EXCEPT ![r] =
            IF ok THEN Subscript(model[r], s_content).val ELSE content[r]]
       /\ full_s3_path' = [full_s3_path EXCEPT ![r] =
            IF ok THEN s3_path(settings.s3_bucket, settings.published_prefix, relpath[r])
            ELSE full_s3_path[r]]
       /\ file_key' = [file_key EXCEPT ![r] =
            IF ok THEN s3_key(settings.published_prefix, relpath[r]) ELSE file_key[r]]
       /\ calls' = [calls EXCEPT ![r] =
            IF ok THEN <<BuilderCall("s3_path", relpath[r]), BuilderCall("s3_key", relpath[r]),
                         BuilderCall("s3_display_path", relpath[r])>>
            ELSE calls[r]]
  /\ UNCHANGED <<serverVars, session, inputVars, relpath, client, obj, exc, finished,
                 puts, clients, nextSession, nextClient>>

\* lines 88-94: `async with self.session.create_client(...) as client`
\* enters: a new client of the request's session is open.
create_client(r) ==
  /\ pc[r] = "create_client"
  /\ LET c == [id |-> nextClient + 1, session |-> session[r]] IN
       /\ client' = [client EXCEPT ![r] = c]
       /\ clients' = clients \cup {c}
  /\ nextClient' = nextClient + 1
  /\ pc' = [pc EXCEPT ![r] = "put_object"]
  /\ trace' = [trace EXCEPT ![r] = Append(trace[r], "create_client")]
  /\ UNCHANGED <<serverVars, session, inputVars, localVars, obj, exc, responseVars,
                 calls, puts, nextSession>>

\* The arguments of client.put_object, lines 96-98.
put_object_args(bucket, key, c) ==
  [Bucket |-> bucket, Key |-> key, Body |-> json_dumps(c)]

\* Mutant of put_object: the whole model is written, not its content field.
put_object_whole_model(r) ==
  /\ pc[r] = "put_object"
  /\ puts' = [puts EXCEPT ![r] = Append(puts[r],
        [client |-> client[r],
         args |-> put_object_args(settings.s3_bucket, file_key[r], model[r])])]
  /\ pc' = [pc EXCEPT ![r] = "await_put_object"]
  /\ trace' = [trace EXCEPT ![r] = Append(trace[r], "put_object")]
  /\ UNCHANGED <<serverVars, session, inputVars, localVars, client, obj, exc,
                 responseVars, calls, clients, nextSession, nextClient>>

\* lines 95-98: the write is issued and the handler awaits the reply.
put_object(r) ==
  /\ pc[r] = "put_object"
  /\ puts' = [puts EXCEPT ![r] = Append(puts[r],
        [client |-> client[r],
         args |-> put_object_args(settings.s3_bucket, file_key[r], content[r])])]
  /\ pc' = [pc EXCEPT ![r] = "await_put_object"]
  /\ trace' = [trace EXCEPT ![r] = Append(trace[r], "put_object")]
  /\ UNCHANGED <<serverVars, session, inputVars, localVars, client, obj, exc,
                 responseVars, calls, clients, nextSession, nextClient>>

\* The storage backend answers the write.
put_object_returns(r, reply) ==
  /\ pc[r] = "await_put_object"
  /\ obj' = [obj EXCEPT ![r] = reply]
  /\ pc' = [pc EXCEPT ![r] = "aexit"]
  /\ trace' = [trace EXCEPT ![r] = Append(trace[r], "put_object_done")]
  /\ UNCHANGED <<serverVars, session, inputVars, localVars, client, exc, responseVars,
                 calls, puts, clients, nextSession, nextClient>>

\* The storage backend fails the write: put_object raises.
put_object_raises(r, e) ==
  /\ pc[r] = "await_put_object"
  /\ exc' = [exc EXCEPT ![r] = e]
  /\ pc' = [pc EXCEPT ![r] = "aexit"]
  /\ trace' = [trace EXCEPT ![r] = Append(trace[r], "put_object_raised")]
  /\ UNCHANGED <<serverVars, session, inputVars, localVars, client, obj, responseVars,
                 calls, puts, clients, nextSession, nextClient>>

\* Mutant of aexit: the block swallows the exception of the write and the
\* handler goes on to respond.
aexit_suppress(r) ==
  /\ pc[r] = "aexit"
  /\ clients' = clients \ {client[r]}
  /\ trace' = [trace EXCEPT ![r] = Append(trace[r], "close_client")]
  /\ pc' = [pc EXCEPT ![r] = "respond"]
  /\ UNCHANGED <<serverVars, session, inputVars, localVars, client, obj, exc,
                 responseVars, calls, puts, nextSession, nextClient>>

\* Mutant of aexit: the client is closed after line 99 only, so an exception
\* of the write leaves it open.
aexit_leak(r) ==
  /\ pc[r] = "aexit"
  /\ clients' = IF exc[r] # "" THEN clients ELSE clients \ {client[r]}
  /\ trace' = [trace EXCEPT ![r] = Append(trace[r], "close_client")]
  /\ IF exc[r] # ""
     THEN /\ pc' = [pc EXCEPT ![r] = "failed"]
          /\ status' = [status EXCEPT ![r] = 500]
          /\ message' = [message EXCEPT ![r] = exc[r]]
     ELSE /\ pc' = [pc EXCEPT ![r] = "respond"]
          /\ UNCHANGED <<status, message>>
  /\ UNCHANGED <<serverVars, session, inputVars, localVars, client, obj, exc, finished,
                 calls, puts, nextSession, nextClient>>

\* The `async with` block is left (line 99 or the exception): the client is
\* closed; an exception goes on to the server, which answers 500.
aexit(r) ==
  /\ pc[r] = "aexit"
  /\ clients' = clients \ {client[r]}
  /\ trace' = [trace EXCEPT ![r] = Append(trace[r], "close_client")]
  /\ IF exc[r] # ""
     THEN /\ pc' = [pc EXCEPT ![r] = "failed"]
          /\ status' = [status EXCEPT ![r] = 500]
          /\ message' = [message EXCEPT ![r] = exc[r]]
     ELSE /\ pc' = [pc EXCEPT ![r] = "respond"]
          /\ UNCHANGED <<status, message>>
  /\ UNCHANGED <<serverVars, session, inputVars, localVars, client, obj, exc, finished,
                 calls, puts, nextSession, nextClient>>

\* Mutant of resp_content: the VersionId of the reply is dropped.
resp_content_no_version(s3path, reply) == JObj(<<Member(s_s3path, JStr(s3path))>>)

\* resp_content, lines 103-106.
resp_content(s3path, reply) ==
  JObj(<<Member(s_s3path, JStr(s3path))>>
       \o (IF HasKey(reply, s_VersionId)
           THEN <<Member(s_versionID, Subscript(reply, s_VersionId).val)>>
           ELSE <<>>))

\* lines 101-109: status 201 and the JSON response.
respond(r) ==
  /\ pc[r] = "respond"
  /\ status' = [status EXCEPT ![r] = 201]
  /\ finished' = [finished EXCEPT ![r] = json_dumps(resp_content(full_s3_path[r], obj[r]))]
  /\ pc' = [pc EXCEPT ![r] = "done"]
  /\ trace' = [trace EXCEPT ![r] = trace[r] \o <<"set_status", "finish">>]
  /\ UNCHANGED <<serverVars, session, inputVars, localVars, client, obj, exc, message,
                 calls, puts, clients, nextSession, nextClient>>

\* One step of request r's handler after the request has arrived.
handle(r) ==
  \/ put(r)
  \/ _publish(r)
  \/ create_client(r)
  \/ put_object(r)
  \/ \E reply \in Replies : put_object_returns(r, reply)
  \/ \E e \in StorageErrors : put_object_raises(r, e)
  \/ aexit(r)
  \/ respond(r)

load == \E report \in ValidationReports : load_jupyter_server_extension(report)

\* ---------------------------------------------------------- specifications
\* One request, routed by the server or made by a direct call of put, over
\* every path and body.
SerialRequests == {1}

Next ==
  \/ load
  \/ \E r \in SerialRequests :
       \/ pc[r] = "idle" /\ \E u \in Urls, m \in Bodies : dispatch(r, u, m)
       \/ pc[r] = "idle" /\ \E p \in Paths, m \in Bodies : call(r, p, m)
       \/ handle(r)

Spec == Init /\ [][Next]_vars

\* Concurrent requests routed by the server, over a few paths and bodies.
\* "/", "/a"
ConcUrls == {<<Slash>>, <<Slash, 97>>}
ConcBodies ==
  {JObj(<<Member(s_type, JStr(s_notebook)), Member(s_content, Notebook)>>),
   JObj(<<Member(s_type, JStr(s_file)), Member(s_content, Notebook)>>)}

NextConc ==
  \/ load
  \/ \E r \in Requests :
       \/ pc[r] = "idle" /\ \E u \in ConcUrls, m \in ConcBodies : dispatch(r, u, m)
       \/ handle(r)

\* The concurrent runs keep one configuration.
InitConc == Init /\ settings.published_prefix = <<112>>

SpecConc == InitConc /\ [][NextConc]_vars

\* ------------------------------------------------------------- properties
Contains(s, x) == \E i \in 1..Len(s) : s[i] = x
Last(s) == s[Len(s)]
Checks == {"check_path", "check_model", "check_type"}
IsCheck(x) == x \in Checks
IsPrefix(s, t) == Len(s) <= Len(t) /\ \A i \in 1..Len(s) : s[i] = t[i]
EmptyPath(p) == p = <<>> \/ p = <<Slash>>
PathMessage == "Must provide a path for publishing"
ModelMessage == "Cannot publish an empty model"
TypeMessage == "bookstore only publishes notebooks"
\* The request has left put / has left the validation of _publish.
PastPut(r) == pc[r] \notin {"idle", "put"}
PastValidation(r) == pc[r] \notin {"idle", "put", "_publish"}
\* Nothing of the storage side has happened for the request.
NoStorage(r) ==
  /\ calls[r] = <<>>
  /\ client[r] = NoClient
  /\ puts[r] = <<>>
  /\ ~Contains(trace[r], "create_client")
ValidBody == JObj(<<Member(s_type, JStr(s_notebook)), Member(s_content, Notebook)>>)

\* C1: the checks of a publish request run in the order path, body, type; the
\* first failing check decides the outcome (a path "" or "/" is a 400 "must
\* provide a path" whatever the body is), and after a failing check nothing
\* else runs: no later check, no key computation, no client, no write.
C1_CheckOrder ==
  \A r \in Requests :
    PastPut(r) =>
      /\ IsPrefix(SelectSeq(trace[r], IsCheck), <<"check_path", "check_model", "check_type">>)
      /\ EmptyPath(path[r]) =>
           /\ pc[r] = "failed"
           /\ status[r] = 400
           /\ message[r] = PathMessage
           /\ trace[r] = <<"check_path">>
      /\ (pc[r] = "failed" /\ status[r] = 400) =>
           /\ Last(trace[r]) \in Checks
           /\ NoStorage(r)
           /\ message[r] = CASE Last(trace[r]) = "check_path" -> PathMessage
                             [] Last(trace[r]) = "check_model" -> ModelMessage
                             [] Last(trace[r]) = "check_type" -> TypeMessage

\* C1 witness: the root path with a well-formed notebook body is refused
\* for its path.
C1_Witness ==
  \E r \in Requests :
    /\ pc[r] = "failed"
    /\ path[r] = <<Slash>>
    /\ model[r] = ValidBody
    /\ message[r] = PathMessage

\* The PUT a successful request must have issued.
ExpectedPut(r) ==
  [Bucket |-> settings.s3_bucket,
   Key |-> s3_key(settings.published_prefix, lstrip(path[r])),
   Body |-> json_dumps(Subscript(model[r], s_content).val)]

\* C2: a request that succeeds has issued exactly one PUT, to the configured
\* bucket, under the key built from the prefix and the stripped path, with
\* the JSON text of the content field alone; a request that fails validation
\* has issued none; no request issues more than one.
C2_OnePut ==
  \A r \in Requests :
    /\ Len(puts[r]) <= 1
    /\ (pc[r] = "failed" /\ exc[r] = "") => puts[r] = <<>>
    /\ pc[r] = "done" => (Len(puts[r]) = 1 /\ puts[r][1].args = ExpectedPut(r))

\* C2 witness: a document whose key and text hold a quote, a backslash, a
\* newline, a form feed, U+0001, DEL, non-ASCII letters and a character
\* above U+FFFF was published under /a, and the body written is the text
\* json.dumps gives for it.
C2_Witness ==
  \E r \in Requests :
    /\ pc[r] = "done"
    /\ path[r] = <<Slash, 97>>
    /\ model[r] = JObj(<<Member(s_type, JStr(s_notebook)), Member(s_content, Quoted)>>)
    /\ Len(puts[r]) = 1
    \* Key p/a
    /\ puts[r][1].args.Key = <<112, Slash, 97>>
    \* Body {"k\"": "a\"\\\n\f\u0001\u007f\u00e9\u00fc\u65e5\ud83d\ude00"}
    /\ puts[r][1].args.Body =
         <<123, 34, 107, 92, 34, 34, 58, 32, 34, 97, 92, 34, 92, 92, 92, 110,
         92, 102, 92, 117, 48, 48, 48, 49, 92, 117, 48, 48, 55, 102, 92, 117,
         48, 48, 101, 57, 92, 117, 48, 48, 102, 99, 92, 117, 54, 53, 101, 53,
         92, 117, 100, 56, 51, 100, 92, 117, 100, 101, 48, 48, 34, 125>>

\* C3: once put_object has raised, the write has been issued exactly once
\* and stays so, status 201 is never set, nothing is handed to finish, and
\* the request ends failed with status 500.
C3_StorageFailure ==
  \A r \in Requests :
    exc[r] # "" =>
      /\ Len(puts[r]) = 1
      /\ status[r] # 201
      /\ finished[r] = <<>>
      /\ pc[r] \in {"aexit", "failed"}
      /\ pc[r] \in Terminal => (pc[r] = "failed" /\ status[r] = 500)

\* C3 witness: a request has ended after its write raised.
C3_Witness ==
  \E r \in Requests :
    /\ pc[r] = "failed"
    /\ exc[r] = "ClientError"
    /\ Contains(trace[r], "put_object_raised")

\* The response body a successful request must have sent.
ExpectedResponse(r) ==
  JObj(<<Member(s_s3path,
                JStr(s3_path(settings.s3_bucket, settings.published_prefix, lstrip(path[r]))))>>
       \o (IF HasKey(obj[r], s_VersionId)
           THEN <<Member(s_versionID, Subscript(obj[r], s_VersionId).val)>>
           ELSE <<>>))

\* The position of step x in a request's trace, 0 when it is absent.
IndexOf(s, x) == IF Contains(s, x) THEN CHOOSE i \in 1..Len(s) : s[i] = x ELSE 0

\* C4: a successful publish answers 201 with the JSON object holding s3path
\* (the full path of the bucket, prefix and stripped path the key was built
\* from) and versionID exactly when the storage reply carried VersionId, with
\* that value, and nothing else; the response is produced after the write
\* has completed.
C4_Response ==
  \A r \in Requests :
    /\ pc[r] = "done" =>
         /\ status[r] = 201
         /\ finished[r] = json_dumps(ExpectedResponse(r))
         /\ ExpectedResponse(r).members[1].val.chars
              = s_scheme \o puts[r][1].args.Bucket \o <<Slash>> \o puts[r][1].args.Key
    /\ (finished[r] # <<>> \/ status[r] = 201) =>
         /\ pc[r] = "done"
         /\ 0 < IndexOf(trace[r], "put_object_done")
         /\ IndexOf(trace[r], "put_object_done") < IndexOf(trace[r], "finish")

\* C4 witness: a publish under /a succeeded on a reply with an ETag and the
\* VersionId v"2, and the response is the text json.dumps gives.
C4_Witness ==
  \E r \in Requests :
    /\ pc[r] = "done"
    /\ HasKey(obj[r], s_VersionId)
    /\ HasKey(obj[r], s_ETag)
    /\ path[r] = <<Slash, 97>>
    \* {"s3path": "s3://b/p/a", "versionID": "v\"2"}
    /\ finished[r] =
         <<123, 34, 115, 51, 112, 97, 116, 104, 34, 58, 32, 34, 115, 51, 58,
         47, 47, 98, 47, 112, 47, 97, 34, 44, 32, 34, 118, 101, 114, 115, 105,
         111, 110, 73, 68, 34, 58, 32, 34, 118, 92, 34, 50, 34, 125>>

\* C5 as stated: for any non-empty path, a null or {} body is a 400 "empty
\* model" with no client and no write.
C5_AnyNonEmptyPath ==
  \A r \in Requests :
    (PastPut(r) /\ path[r] # <<>> /\ model[r] \in {JNull, JObj(<<>>)}) =>
      /\ pc[r] = "failed"
      /\ status[r] = 400
      /\ message[r] = ModelMessage
      /\ NoStorage(r)

\* C5 amended: for any path other than "" and "/", a null or {} body is a
\* 400 "empty model" with no client and no write.
C5_EmptyModel ==
  \A r \in Requests :
    (PastPut(r) /\ ~EmptyPath(path[r]) /\ model[r] \in {JNull, JObj(<<>>)}) =>
      /\ pc[r] = "failed"
      /\ status[r] = 400
      /\ message[r] = ModelMessage
      /\ NoStorage(r)

\* C5 witness: an empty object was refused on a path that passes the path check.
C5_Witness ==
  \E r \in Requests :
    /\ pc[r] = "failed"
    /\ via[r] = "route"
    /\ path[r] = <<Slash, 97>>
    /\ model[r] = JObj(<<>>)
    /\ message[r] = ModelMessage

\* C6: on a path other than "" and "/", a non-empty body whose type field is
\* not "notebook" is a 400 "only publishes notebooks", whatever its content
\* field holds, before any key, client or write.
C6_WrongType ==
  \A r \in Requests :
    (/\ PastValidation(r)
     /\ ~EmptyPath(path[r])
     /\ Truthy(model[r])
     /\ model[r].kind = "obj"
     /\ HasKey(model[r], s_type)
     /\ ~IsNotebookType(Subscript(model[r], s_type).val)) =>
      /\ pc[r] = "failed"
      /\ status[r] = 400
      /\ message[r] = TypeMessage
      /\ NoStorage(r)

\* C6 witness: a body of type "file" with a notebook as content was refused.
C6_Witness ==
  \E r \in Requests :
    /\ pc[r] = "failed"
    /\ model[r] = JObj(<<Member(s_type, JStr(s_file)), Member(s_content, Notebook)>>)
    /\ message[r] = TypeMessage

\* A non-empty body of the wrong shape: no type field, or type "notebook"
\* and no content field.
Misshapen(m) ==
  /\ m.kind = "obj"
  /\ Truthy(m)
  /\ \/ ~HasKey(m, s_type)
     \/ (IsNotebookType(Subscript(m, s_type).val) /\ ~HasKey(m, s_content))

\* C7: a non-empty body that lacks the type field, or has type "notebook"
\* and lacks the content field, is refused with 400 and never with 5xx, and
\* no write is issued.
C7_ShapeRejected ==
  \A r \in Requests :
    (PastValidation(r) /\ ~EmptyPath(path[r]) /\ Misshapen(model[r])) =>
      /\ pc[r] = "failed"
      /\ status[r] = 400
      /\ puts[r] = <<>>

\* The requests that hold a client inside their `async with` block.
InBlock(r) == pc[r] \in {"put_object", "await_put_object", "aexit"}

\* C8: every request that reaches the write has a client of its own session,
\* shared with no other request, used for exactly one put_object; when the
\* request has ended, after a write or after an exception of the write, its
\* client is closed, so the open clients are those of requests inside their
\* `async with` block.
C8_ClientScope ==
  /\ \A r \in Requests :
       /\ client[r] # NoClient =>
            /\ client[r].session = session[r]
            /\ \A q \in Requests \ {r} :
                 /\ client[q] # client[r]
                 /\ session[q] # session[r]
                 /\ \A i \in 1..Len(puts[q]) : puts[q][i].client # client[r]
       /\ \A i \in 1..Len(puts[r]) : puts[r][i].client = client[r] /\ client[r] # NoClient
       /\ Len(puts[r]) <= 1
       /\ (client[r] # NoClient /\ pc[r] # "put_object") => Len(puts[r]) = 1
       /\ pc[r] \in Terminal => client[r] \notin clients
  /\ clients \subseteq {client[r] : r \in {q \in Requests : InBlock(q)}}

\* C8 witness: one request has ended on an exception of its write while
\* another still holds its open client.
C8_Witness ==
  \E r, q \in Requests :
    /\ r # q
    /\ pc[r] = "failed"
    /\ exc[r] # ""
    /\ client[r] # NoClient
    /\ client[q] \in clients

\* The publish route is to be mounted: both flags are in the report and true.
BothValid(report) ==
  /\ "bookstore_valid" \in DOMAIN report
  /\ "publish_valid" \in DOMAIN report
  /\ report["bookstore_valid"]
  /\ report["publish_valid"]

C9_Routes ==
  loaded =>
    /\ VersionRoute \in routes
    /\ PublishRoute \in routes <=> BothValid(validation)

\* C9: once load_jupyter_server_extension has run, the version route is
\* registered, and the publish route is registered exactly when the report
\* has bookstore_valid and publish_valid both true (a false or missing flag
\* leaves it unmounted); no later step, and no request, changes the routes.
C9_RouteRegistration ==
  /\ []C9_Routes
  /\ [][loaded => (routes' = routes /\ validation' = validation)]_vars

\* C9 witness: the report has bookstore_valid true and no publish_valid, and
\* only the version route is mounted.
C9_Witness ==
  /\ loaded
  /\ DOMAIN validation = {"bookstore_valid"}
  /\ validation["bookstore_valid"]
  /\ routes = {VersionRoute}

\* C10: every path-builder call of the handler has a relative path that is
\* not empty, not "/" and has no leading slash, for every path string put
\* is given that passes its path check, "//" included.
C10_BuilderArgument ==
  \A r \in Requests :
    \A i \in 1..Len(calls[r]) :
      /\ calls[r][i].path # <<>>
      /\ calls[r][i].path # <<Slash>>
      /\ Head(calls[r][i].path) # Slash
====
